---------------------------- MODULE Spec2Model ----------------------------
(***************************************************************************)
(* A model of mininet's platform layer: the traffic-shaped interface       *)
(* (mininet/link.py, TCIntf), links and interfaces (mininet/link.py,       *)
(* mininet/linux/node.py, mininet/openbsd/intf.py), the platform nodes     *)
(* (mininet/linux/node.py, mininet/openbsd/node.py) and the cleanup        *)
(* procedure (mininet/clean.py).                                           *)
(*                                                                         *)
(* Python values are carried as tagged records: None, a number, a string.  *)
(* Numbers that are formatted with a fixed number of decimals (the loss    *)
(* percentage) are carried in millionths, so that formatting rounds.       *)
(***************************************************************************)
EXTENDS Integers, Sequences, FiniteSets, TLC

VARIABLES
    \* ---- TCIntf (link.py) ----
    kdef,       \* what "qdisc show" prints for this kernel's pristine default
    qd,         \* the interface's queueing-discipline state in the kernel
    tcArgs,     \* the arguments of the last TCIntf.config call
    tcPre,      \* the queueing-discipline state that call started from
    tcRes,      \* what that call issued and returned
    \* ---- Link and Intf (link.py, linux/node.py, openbsd/intf.py) ----
    platform,   \* the platform whose Intf class the links use
    nameToIntf, \* per node: its mapping of interface name -> Intf
    ports,      \* per node: its mapping of Intf -> port number
    portNames,  \* per node (OpenBSD): logical name -> real name
    intfs,      \* the Intf objects made so far
    links,      \* the Link objects made so far
    kernel,     \* the interface pairs that exist in the kernel
    linkOp,     \* the last Link operation and how it ended
    \* ---- Node (linux/node.py, openbsd/node.py) ----
    Node_index, \* openbsd Node.index: the next rdomain id
    Intf_index, \* openbsd Intf.index: the next pair(4) unit
    vnodes,     \* the Node objects, by slot
    anchors,    \* the anchor pairs the kernel was asked to create
    attempts,   \* every isolated creation on OpenBSD: its id, its outcome
    nodeOp,     \* the last Node operation, its steps and how it ended
    \* ---- Cleanup (clean.py) ----
    uname,      \* uname()[ 0 ]: the platform cleanup was loaded on
    ifaces,     \* the interfaces the kernel lists
    procs,      \* the processes: << command line, "run" or "killed" >>
    bridges,    \* the OVS bridges
    dps,        \* the legacy kernel datapaths seen in the process list
    jails,      \* the jails (FreeBSD)
    callbacks,  \* Cleanup.callbacks
    regs,       \* every addCleanupCallback call so far, in order
    cpc,        \* where cleanup() is: "idle", a stage, or "done"
    clog,       \* what the current cleanup() run has issued, in order
    cruns,      \* the cleanup() runs completed
    \* ---- the link stage of cleanup over the links' interfaces ----
    sweep,      \* the last _iplinkClean: what it found and its batches
    \* ---- OVSIntf (link.py) ----
    ovsOp       \* the last OVSIntf.ifconfig call and how it ended

tcVars == << kdef, qd, tcArgs, tcPre, tcRes >>
nodeVars == << Node_index, Intf_index, vnodes, anchors, attempts, nodeOp >>
cleanVars == << uname, ifaces, procs, bridges, dps, jails, callbacks, regs,
                cpc, clog, cruns >>
sweepVars == << sweep >>
ovsVars == << ovsOp >>
linkVars == << platform, nameToIntf, ports, portNames, intfs, links, kernel,
               linkOp >>

(***************************************************************************)
(* Python values                                                           *)
(***************************************************************************)
None == [t |-> "none"]
Num(n) == [t |-> "num", v |-> n]
Str(s) == [t |-> "str", s |-> s]

IsNone(x) == x.t = "none"

\* Python truth value: None, 0 and '' are false
Truthy(x) ==
    \/ x.t = "num" /\ x.v # 0
    \/ x.t = "str" /\ x.s # ""

\* x < n for a number n; a Python 2 string is never below a number
Lt(x, n) == x.t = "num" /\ x.v < n
Gt(x, n) == x.t = "num" /\ x.v > n

\* one unit, in millionths
Scale == 1000 * 1000

(***************************************************************************)
(* '%f' / '%.5f' / '%d' formatting, as sequences of characters             *)
(***************************************************************************)
DigitChar(d) == << "0", "1", "2", "3", "4", "5", "6", "7", "8", "9" >>[d + 1]

RECURSIVE Digits(_)
Digits(n) == IF n < 10 THEN << DigitChar(n) >>
             ELSE Digits(n \div 10) \o << DigitChar(n % 10) >>

RECURSIVE Pow10(_)
Pow10(k) == IF k = 0 THEN 1 ELSE 10 * Pow10(k - 1)

RECURSIVE ZeroPad(_, _)
ZeroPad(n, width) ==
    IF width = 0 THEN << >>
    ELSE ZeroPad(n \div 10, width - 1) \o << DigitChar(n % 10) >>

\* '%.<places>f' % x, x given in millionths, rounded to the nearest
FmtFixed(micro, places) ==
    LET mag   == IF micro < 0 THEN 0 - micro ELSE micro
        unit  == Pow10(6 - places)
        q     == (mag + (unit \div 2)) \div unit
        whole == q \div Pow10(places)
        frac  == q % Pow10(places)
        sign  == IF micro < 0 /\ q # 0 THEN << "-" >> ELSE << >>
    IN  sign \o Digits(whole) \o << "." >> \o ZeroPad(frac, places)

\* '%f' % n for an integer n
FmtF(n) == FmtFixed(n * Scale, 6)

\* '%s' / '%d' of a value: a string is printed as it is
FmtS(x) == IF x.t = "str" THEN << x.s >>
           ELSE IF x.v < 0 THEN << "-" >> \o Digits(0 - x.v) ELSE Digits(x.v)

(***************************************************************************)
(* tc commands                                                             *)
(***************************************************************************)
\* '%s qdisc del dev %s root'
DelRootCmd == [ op |-> "qdisc del", parent |-> "root", handle |-> "",
                kind |-> "", args |-> << >> ]

QdiscAdd(parent, handle, kind, args) ==
    [ op |-> "qdisc add", parent |-> parent, handle |-> handle,
      kind |-> kind, args |-> args ]

ClassAdd(parent, classid, kind, args) ==
    [ op |-> "class add", parent |-> parent, handle |-> classid,
      kind |-> kind, args |-> args ]

bwParamMax == 1000


(***************************************************************************)
(* TCIntf.bwCmds: the bandwidth stage and the optional RED/ECN stage.      *)
(* Result: raised (ZeroDivisionError in the TBF latency), the errors       *)
(* reported, the commands and the parent for the next stage.               *)
(***************************************************************************)
\* name[0:1]: the first character of a name (a sequence of characters)
FirstChar(name) == IF Len(name) = 0 THEN << >> ELSE SubSeq(name, 1, 1)

\* the rate the stage uses: the speedup replaces bw on a node named s...
bwRate(nodeName, bw, speedup) ==
    IF speedup > 0 /\ FirstChar(nodeName) = << "s" >> THEN speedup ELSE bw.v

\* the discipline the stage builds
bwDiscipline(rate, use_hfsc, use_tbf, latency_ms) ==
    IF use_hfsc
    THEN << QdiscAdd("root", "5:0", "hfsc", << << "default", << "1" >> >> >>),
            ClassAdd("5:0", "5:1", "hfsc",
                     << << "rate", FmtF(rate) >>, << "ul rate", FmtF(rate) >> >>) >>
    ELSE IF use_tbf
    THEN LET lat == IF IsNone(latency_ms) THEN (15 * 8) \div rate
                    ELSE latency_ms.v
         IN << QdiscAdd("root", "5:", "tbf",
                        << << "rate", FmtF(rate) >>, << "burst", << "15000" >> >>,
                           << "latency", FmtF(lat) >> >>) >>
    ELSE << QdiscAdd("root", "5:0", "htb", << << "default", << "1" >> >> >>),
            ClassAdd("5:0", "5:1", "htb",
                     << << "rate", FmtF(rate) >>, << "burst", << "15k" >> >> >>) >>

\* a RED stage attached at the root
bwRedMut(parent, rate, ecn) ==
    QdiscAdd("root", "6:", "red", << << "bandwidth", FmtF(rate) >> >>)

\* the RED stage, with or without ECN marking
bwRed(parent, rate, ecn) ==
    QdiscAdd(parent, "6:", "red",
             << << "limit", << "1000000" >> >>, << "min", << "30000" >> >>,
                << "max", << "35000" >> >>, << "avpkt", << "1500" >> >>,
                << "burst", << "20" >> >>, << "bandwidth", FmtF(rate) >>,
                << "probability", << "1" >> >> >>
             \o (IF ecn THEN << << "ecn", << >> >> >> ELSE << >>))

bwCmds(nodeName, bw, speedup, use_hfsc, use_tbf, latency_ms, enable_ecn, enable_red) ==
    IF Truthy(bw) /\ (Lt(bw, 0) \/ Gt(bw, bwParamMax))
    THEN [ raised |-> FALSE, errors |-> << "Bandwidth limit" >>,
           cmds |-> << >>, parent |-> "root" ]
    ELSE IF ~IsNone(bw)
    THEN LET rate == bwRate(nodeName, bw, speedup)
         IN  IF ~use_hfsc /\ use_tbf /\ IsNone(latency_ms) /\ rate = 0
             THEN [ raised |-> TRUE, errors |-> << >>,
                    cmds |-> << >>, parent |-> "root" ]
             ELSE LET disc == bwDiscipline(rate, use_hfsc, use_tbf, latency_ms)
                  IN  IF enable_ecn \/ enable_red
                      THEN [ raised |-> FALSE, errors |-> << >>,
                             cmds |-> disc \o << bwRed("5:1", rate, enable_ecn) >>,
                             parent |-> "6:" ]
                      ELSE [ raised |-> FALSE, errors |-> << >>,
                             cmds |-> disc, parent |-> "5:1" ]
    ELSE [ raised |-> FALSE, errors |-> << >>, cmds |-> << >>, parent |-> "root" ]

(***************************************************************************)
(* TCIntf.delayCmds: the netem stage.  loss is given in millionths.        *)
(***************************************************************************)
netemargs(delay, jitter, loss, max_queue_size) ==
    (IF ~IsNone(delay) THEN << << "delay", FmtS(delay) >> >> ELSE << >>)
    \o (IF ~IsNone(jitter) THEN << << "", FmtS(jitter) >> >> ELSE << >>)
    \o (IF ~IsNone(loss) THEN << << "loss", FmtFixed(loss.v, 5) >> >> ELSE << >>)
    \o (IF ~IsNone(max_queue_size)
        THEN << << "limit", FmtS(max_queue_size) >> >> ELSE << >>)

\* validation that reports the error and builds the stage all the same
delayCmdsMut(parent, delay, jitter, loss, max_queue_size) ==
    LET bad  == \/ Truthy(delay) /\ Lt(delay, 0)
                \/ Truthy(jitter) /\ Lt(jitter, 0)
                \/ Truthy(loss) /\ (Lt(loss, 0) \/ Gt(loss, 100 * Scale))
        args == IF bad THEN << >>
                ELSE netemargs(delay, jitter, loss, max_queue_size)
    IN  IF bad \/ args # << >>
        THEN [ errors |-> IF bad THEN << "Bad delay or loss" >> ELSE << >>,
               cmds |-> << QdiscAdd(parent, "10:", "netem", args) >>,
               parent |-> "10:1" ]
        ELSE [ errors |-> << >>, cmds |-> << >>, parent |-> parent ]

delayCmds(parent, delay, jitter, loss, max_queue_size) ==
    IF Truthy(delay) /\ Lt(delay, 0)
    THEN [ errors |-> << "Negative delay" >>, cmds |-> << >>, parent |-> parent ]
    ELSE IF Truthy(jitter) /\ Lt(jitter, 0)
    THEN [ errors |-> << "Negative jitter" >>, cmds |-> << >>, parent |-> parent ]
    ELSE IF Truthy(loss) /\ (Lt(loss, 0) \/ Gt(loss, 100 * Scale))
    THEN [ errors |-> << "Bad loss percentage" >>, cmds |-> << >>,
           parent |-> parent ]
    ELSE LET args == netemargs(delay, jitter, loss, max_queue_size)
         IN  IF args # << >>
             THEN [ errors |-> << >>,
                    cmds |-> << QdiscAdd(parent, "10:", "netem", args) >>,
                    parent |-> "10:1" ]
             ELSE [ errors |-> << >>, cmds |-> << >>, parent |-> parent ]

(***************************************************************************)
(* The kernel's side of a tc command (TCIntf.tc): the effect on the        *)
(* interface's queueing disciplines and the text the command prints.       *)
(* A successful command prints nothing.                                    *)
(***************************************************************************)
PristineQd == [ root |-> "default", handles |-> { } ]

\* the handles a discipline of this kind exposes once added
NewHandles(cmd) ==
    CASE cmd.kind = "tbf"   -> { cmd.handle, "5:1" }
      [] cmd.kind = "netem" -> { cmd.handle, "10:1" }
      [] OTHER              -> { cmd.handle }

\* "qdisc show": the pristine default prints the kernel's default line
qdiscShow(q, default) ==
    IF q.root = "default" THEN { "qdisc", default } ELSE { "qdisc", q.root }

tcExec(cmd, q) ==
    CASE cmd.op = "qdisc del" ->
           IF q.root = "default"
           THEN [ qd |-> q, out |-> "RTNETLINK answers: No such file or directory" ]
           ELSE [ qd |-> PristineQd, out |-> "" ]
      [] cmd.op = "qdisc add" /\ cmd.parent = "root" ->
           IF q.root # "default"
           THEN [ qd |-> q, out |-> "RTNETLINK answers: File exists" ]
           ELSE [ qd |-> [ root |-> cmd.kind, handles |-> NewHandles(cmd) ],
                  out |-> "" ]
      [] OTHER ->
           IF cmd.parent \notin q.handles
           THEN [ qd |-> q, out |-> "RTNETLINK answers: No such file or directory" ]
           ELSE [ qd |-> [ q EXCEPT !.handles = @ \cup NewHandles(cmd) ],
                  out |-> "" ]

\* a run of the chain that stops at the first command that prints something
RECURSIVE tcRunMut(_, _, _)
tcRunMut(cmds, q, outs) ==
    IF cmds = << >> THEN [ qd |-> q, outs |-> outs ]
    ELSE LET r == tcExec(Head(cmds), q)
         IN  IF r.out # "" THEN [ qd |-> r.qd, outs |-> Append(outs, r.out) ]
             ELSE tcRunMut(Tail(cmds), r.qd, Append(outs, r.out))

\* tcoutputs = [ self.tc(cmd) for cmd in cmds ]: every command, in order
RECURSIVE tcRun(_, _, _)
tcRun(cmds, q, outs) ==
    IF cmds = << >> THEN [ qd |-> q, outs |-> outs ]
    ELSE LET r == tcExec(Head(cmds), q)
         IN  tcRun(Tail(cmds), r.qd, Append(outs, r.out))

(***************************************************************************)
(* TCIntf.config                                                           *)
(***************************************************************************)
EthtoolCmd == [ op |-> "ethtool -K", parent |-> "", handle |-> "",
                kind |-> "", args |-> << >> ]
ShowCmd == [ op |-> "qdisc show", parent |-> "", handle |-> "",
             kind |-> "", args |-> << >> ]

\* the commands that clear the existing configuration
clearCmdsInvMut(tcoutput) ==
    IF "priomap" \in tcoutput \/ "noqueue" \in tcoutput
    THEN << DelRootCmd >> ELSE << >>

clearCmdsMut(tcoutput) ==
    IF "priomap" \notin tcoutput \/ "noqueue" \notin tcoutput
    THEN << DelRootCmd >> ELSE << >>

clearCmds(tcoutput) ==
    IF "priomap" \notin tcoutput /\ "noqueue" \notin tcoutput
    THEN << DelRootCmd >> ELSE << >>

\* "Optimization: return if nothing else to configure"
nothingToConfigure(p) ==
    IsNone(p.bw) /\ ~Truthy(p.delay) /\ ~Truthy(p.loss)
    /\ IsNone(p.max_queue_size)

NoResult == [ status |-> "none", cmds |-> << >>, issued |-> << >>,
              tcoutputs |-> << >>, parent |-> "", errors |-> << >>,
              shown |-> { } ]

config(p, q, default) ==
    IF nothingToConfigure(p)
    THEN [ qd |-> q,
           res |-> [ NoResult EXCEPT !.status = "early",
                                     !.issued = << EthtoolCmd >> ] ]
    ELSE
    LET tcoutput == qdiscShow(q, default)
        clear    == clearCmds(tcoutput)
        bw       == bwCmds(p.nodeName, p.bw, p.speedup, p.use_hfsc, p.use_tbf,
                           p.latency_ms, p.enable_ecn, p.enable_red)
    IN  IF bw.raised
        THEN [ qd |-> q,
               res |-> [ NoResult EXCEPT !.status = "raised",
                                         !.issued = << EthtoolCmd, ShowCmd >>,
                                         !.shown = tcoutput ] ]
        ELSE
        LET dl   == delayCmds(bw.parent, p.delay, p.jitter, p.loss,
                              p.max_queue_size)
            cmds == clear \o bw.cmds \o dl.cmds
            run  == tcRun(cmds, q, << >>)
            bad  == SelectSeq(run.outs, LAMBDA o : o # "")
        IN  [ qd |-> run.qd,
              res |-> [ status |-> "returned", cmds |-> cmds,
                        issued |-> << EthtoolCmd, ShowCmd >> \o cmds,
                        tcoutputs |-> run.outs, parent |-> dl.parent,
                        errors |-> bw.errors \o dl.errors
                                   \o [ i \in 1..Len(bad) |-> "*** Error" ],
                        shown |-> tcoutput ] ]

(***************************************************************************)
(* The arguments TCIntf.config is called with                              *)
(***************************************************************************)
BwValues == { None, Num(-1), Num(0), Num(10), Num(bwParamMax),
              Num(bwParamMax + 1) }
DelayValues == { None, Str("5ms"), Num(0), Num(-1) }
JitterValues == { None, Str("1ms"), Num(-1) }
\* loss, in millionths of a percent
LossValues == { None, Num(0), Num(1234567), Num(100 * Scale),
                Num(100 * Scale + 1), Num(0 - Scale) }
QueueValues == { None, Num(0), Num(100) }
SpeedupValues == { 0, 2 * bwParamMax }
NodeNames == { << "s", "1" >>, << "h", "1" >> }

ConfigArgs ==
    [ bw : BwValues, delay : DelayValues, jitter : JitterValues,
      loss : LossValues, max_queue_size : QueueValues,
      speedup : SpeedupValues, use_hfsc : BOOLEAN, use_tbf : BOOLEAN,
      latency_ms : { None }, enable_ecn : BOOLEAN, enable_red : BOOLEAN,
      nodeName : NodeNames ]

NoArgs == [ bw |-> None, delay |-> None, jitter |-> None, loss |-> None,
            max_queue_size |-> None, speedup |-> 0, use_hfsc |-> FALSE,
            use_tbf |-> FALSE, latency_ms |-> None, enable_ecn |-> FALSE,
            enable_red |-> FALSE, nodeName |-> << "h", "1" >> ]

\* the arguments of the calls made one after another on one interface
SeqArgs ==
    { p \in [ bw : { None, Num(0), Num(10), Num(bwParamMax + 1) },
              delay : { None, Str("5ms") }, jitter : { None },
              loss : { None, Num(1234567), Num(100 * Scale + 1) },
              max_queue_size : { None }, speedup : { 0 },
              use_hfsc : BOOLEAN, use_tbf : BOOLEAN, latency_ms : { None },
              enable_ecn : { FALSE }, enable_red : { FALSE },
              nodeName : { << "h", "1" >> } ] :
        ~(p.use_hfsc /\ p.use_tbf) }

\* intf.config( **p ): the call's effect on the interface and its record
Apply(p) ==
    LET r == config(p, qd, kdef)
    IN  /\ qd' = r.qd
        /\ tcArgs' = p
        /\ tcPre' = qd
        /\ tcRes' = r.res
        /\ UNCHANGED kdef

\* calls made one after another on one interface
Config == \E p \in SeqArgs : Apply(p)

\* one call on a freshly created interface, with the arguments it was
\* created with
ConfigOnce == tcRes.status = "none" /\ Apply(tcArgs)

\* a kernel whose default discipline is fq_codel prints neither priomap nor
\* noqueue for a pristine interface
InitTC ==
    /\ kdef \in { "priomap", "noqueue", "fq_codel" }
    /\ qd = PristineQd
    /\ tcArgs = NoArgs
    /\ tcPre = PristineQd
    /\ tcRes = NoResult

\* a freshly created interface, about to be configured with any arguments
InitTCCall ==
    /\ kdef \in { "priomap", "noqueue" }
    /\ qd = PristineQd
    /\ tcArgs \in ConfigArgs
    /\ tcPre = PristineQd
    /\ tcRes = NoResult

(***************************************************************************)
(* Nodes, as far as links need them (mininet.basenode: newPort, addIntf,   *)
(* delIntf) and the base Intf constructor (mininet.baseintf).              *)
(***************************************************************************)
MaxLinks == 2
Nodes == { "h1", "h2", "s1", "s2" }
GivenPorts == { 5 }

\* a relation used as a Python dict: the keys, a lookup, store and removal
Keys(d) == { e[1] : e \in d }
Get(d, k) == (CHOOSE e \in d : e[1] = k)[2]
Put(d, k, v) == { e \in d : e[1] # k } \cup { << k, v >> }
Del(d, k) == { e \in d : e[1] # k }

Max(S) == CHOOSE x \in S : \A y \in S : y <= x

\* BaseNode.newPort: the next free port number of a node
newPort(st, node) ==
    IF st.ports[node] = { } THEN 0
    ELSE Max({ e[2] : e \in st.ports[node] }) + 1

\* BaseNode.addIntf: register the interface under its port and its name
baseAddIntf(st, node, i, name, port) ==
    [ st EXCEPT !.ports[node] = Put(@, i, port),
                !.nameToIntf[node] = Put(@, name, i) ]

\* BaseNode.delIntf: forget the interface, if the node knows it
delIntf(st, node, i) ==
    IF i \in Keys(st.ports[node])
    THEN [ st EXCEPT !.ports[node] = Del(@, i),
                     !.nameToIntf[node] = Del(@, st.intfs[i].name) ]
    ELSE st

\* openbsd Node.addIntf: record the real name, then register
openbsdAddIntf(st, node, i, name, realname, port) ==
    baseAddIntf([ st EXCEPT !.portNames[node] = Put(@, name, realname) ],
                node, i, name, port)

\* Link.intfName: node.name + '-eth' + repr( n )
intfName(node, n) == << node, "-eth", n >>

\* the Intf constructor: the object, registered with its node
newIntf(plat, st, name, node, port, link, realname) ==
    LET i  == Len(st.intfs) + 1
        s1 == [ st EXCEPT !.intfs = Append(@, [ name |-> name, node |-> node,
                                                port |-> port, link |-> link,
                                                realname |-> realname ]) ]
    IN  IF plat = "openbsd"
        THEN openbsdAddIntf(s1, node, i, name, realname, port)
        ELSE baseAddIntf(s1, node, i, name, port)

\* makeIntfPair: the kernel creates the two ends of one pair
makeIntfPair(st, kname1, kname2) ==
    [ st EXCEPT !.kernel = @ \cup { { kname1, kname2 } } ]

(***************************************************************************)
(* Link.__init__                                                           *)
(***************************************************************************)
NotGiven == -1

LinkInit(plat, st, node1, node2, port1, port2) ==
    LET l     == Len(st.links) + 1
        p1    == IF port1 # NotGiven THEN port1 ELSE newPort(st, node1)
        p2    == IF port2 # NotGiven THEN port2 ELSE newPort(st, node2)
        name1 == intfName(node1, p1)
        name2 == intfName(node2, p2)
        \* OpenBSD: the real names come with the parameters (orgName)
        real1 == IF plat = "openbsd" THEN << "pair", 2 * l - 2 >> ELSE name1
        real2 == IF plat = "openbsd" THEN << "pair", 2 * l - 1 >> ELSE name2
        s1    == makeIntfPair(st, real1, real2)
        s2    == newIntf(plat, s1, name1, node1, p1, l, real1)
        s3    == newIntf(plat, s2, name2, node2, p2, l, real2)
    IN  [ s3 EXCEPT !.links = Append(@, [ intf1 |-> Len(s3.intfs) - 1,
                                          intf2 |-> Len(s3.intfs),
                                          names |-> << name1, name2 >>,
                                          nodes |-> << node1, node2 >>,
                                          given |-> << port1, port2 >> ]) ]

(***************************************************************************)
(* Intf.delete, per platform.  Result: the state and whether it raised.    *)
(***************************************************************************)
\* 'ip link del <name>': the kernel removes the pair the name is an end of
ipLinkDel(st, name) ==
    [ st EXCEPT !.kernel = { pr \in @ : name \notin pr } ]

\* linux Intf.delete: ends in "return result", a name nothing binds
linuxIntfDelete(st, i) ==
    LET s1 == ipLinkDel(st, st.intfs[i].name)
        s2 == delIntf(s1, st.intfs[i].node, i)
        s3 == [ s2 EXCEPT !.intfs[i].link = 0 ]
    IN  [ st |-> s3, raised |-> TRUE ]

\* openbsd Intf.delete
openbsdIntfDelete(st, i) ==
    LET node == st.intfs[i].node
        s1 == IF st.intfs[i].name \in Keys(st.portNames[node])
              THEN [ st EXCEPT !.portNames[node] = Del(@, st.intfs[i].name) ]
              ELSE st
        s2 == delIntf(s1, node, i)
        s3 == [ s2 EXCEPT !.intfs[i].link = 0 ]
    IN  [ st |-> s3, raised |-> FALSE ]

IntfDelete(plat, st, i) ==
    IF plat = "openbsd" THEN openbsdIntfDelete(st, i)
    ELSE linuxIntfDelete(st, i)

(***************************************************************************)
(* Intf.rename, per platform, and the name OS-facing commands are run on   *)
(***************************************************************************)
\* openbsd rename without the removal of the old logical name
openbsdRenameMut(st, i, newname) ==
    LET node == st.intfs[i].node
    IN  [ st EXCEPT !.portNames[node] = Put(@, newname, st.intfs[i].realname),
                    !.intfs[i].name = newname ]

\* openbsd Intf.rename: only the logical name changes
openbsdRename(st, i, newname) ==
    LET node == st.intfs[i].node
        s1 == IF st.intfs[i].name \in Keys(st.portNames[node])
              THEN [ st EXCEPT !.portNames[node] = Del(@, st.intfs[i].name) ]
              ELSE st
    IN  [ s1 EXCEPT !.portNames[node] = Put(@, newname, st.intfs[i].realname),
                    !.intfs[i].name = newname ]

\* linux Intf.rename: 'ip link set <name> name <newname>'
linuxRename(st, i, newname) ==
    [ st EXCEPT !.kernel = { { IF n = st.intfs[i].realname THEN newname ELSE n
                               : n \in pr } : pr \in @ },
                !.intfs[i].name = newname,
                !.intfs[i].realname = newname ]

IntfRename(plat, st, i, newname) ==
    IF plat = "openbsd" THEN openbsdRename(st, i, newname)
    ELSE linuxRename(st, i, newname)

\* openbsd Intf.ifconfig: the interface name the command is given
openbsdIfconfig(st, i) == st.intfs[i].realname

\* openbsd Intf.status: is the real name among the pair interfaces
openbsdStatus(st, i) ==
    IF \E pr \in st.kernel : st.intfs[i].realname \in pr
    THEN "OK" ELSE "MISSING"

(***************************************************************************)
(* Link.delete and Link.stop.  0 stands for None.                          *)
(***************************************************************************)
LinkDelete(plat, st, l) ==
    IF st.links[l].intf1 = 0
    THEN [ st |-> st, raised |-> TRUE ]      \* None has no delete()
    ELSE
    LET d1 == IntfDelete(plat, st, st.links[l].intf1)
    IN  IF d1.raised THEN d1
        ELSE
        LET s1 == [ d1.st EXCEPT !.links[l].intf1 = 0 ]
        IN  IF s1.links[l].intf2 = 0
            THEN [ st |-> s1, raised |-> TRUE ]
            ELSE
            LET d2 == IntfDelete(plat, s1, s1.links[l].intf2)
            IN  IF d2.raised THEN d2
                ELSE [ st |-> [ d2.st EXCEPT !.links[l].intf2 = 0 ],
                       raised |-> FALSE ]

LinkStop(plat, st, l) == LinkDelete(plat, st, l)

(***************************************************************************)
(* The link operations as actions                                          *)
(***************************************************************************)
LinkState == [ nameToIntf |-> nameToIntf, ports |-> ports,
               portNames |-> portNames, intfs |-> intfs, links |-> links,
               kernel |-> kernel ]

SetLinkState(st) ==
    /\ nameToIntf' = st.nameToIntf
    /\ ports' = st.ports
    /\ portNames' = st.portNames
    /\ intfs' = st.intfs
    /\ links' = st.links
    /\ kernel' = st.kernel

InitLink ==
    /\ platform \in { "linux", "openbsd" }
    /\ nameToIntf = [ n \in Nodes |-> { } ]
    /\ ports = [ n \in Nodes |-> { } ]
    /\ portNames = [ n \in Nodes |-> { } ]
    /\ intfs = << >>
    /\ links = << >>
    /\ kernel = { }
    /\ linkOp = [ op |-> "none", link |-> 0, status |-> "none",
                  whole |-> FALSE, intf |-> 0 ]

\* the link still has both of its interfaces, registered and bound to it
Whole(l) ==
    /\ links[l].intf1 # 0 /\ links[l].intf2 # 0
    /\ \A i \in { links[l].intf1, links[l].intf2 } :
          /\ intfs[i].link = l
          /\ i \in Keys(ports[intfs[i].node])

\* the caller gives a port only where the node has none of that number
PortFree(node, port) ==
    port = NotGiven \/ port \notin { e[2] : e \in ports[node] }

NewLink ==
    \E node1 \in Nodes, node2 \in Nodes,
       port1 \in GivenPorts \cup { NotGiven },
       port2 \in GivenPorts \cup { NotGiven } :
        /\ Len(links) < MaxLinks
        /\ node1 # node2
        /\ PortFree(node1, port1) /\ PortFree(node2, port2)
        /\ SetLinkState(LinkInit(platform, LinkState, node1, node2,
                                 port1, port2))
        /\ linkOp' = [ op |-> "init", link |-> Len(links) + 1,
                       status |-> "returned", whole |-> TRUE, intf |-> 0 ]
        /\ UNCHANGED platform

DeleteLink ==
    \E l \in 1..Len(links) :
        LET r == LinkDelete(platform, LinkState, l)
        IN  /\ SetLinkState(r.st)
            /\ linkOp' = [ op |-> "delete", link |-> l,
                           status |-> IF r.raised THEN "raised"
                                      ELSE "returned",
                           whole |-> Whole(l), intf |-> 0 ]
            /\ UNCHANGED platform

StopLink ==
    \E l \in 1..Len(links) :
        LET r == LinkStop(platform, LinkState, l)
        IN  /\ SetLinkState(r.st)
            /\ linkOp' = [ op |-> "stop", link |-> l,
                           status |-> IF r.raised THEN "raised"
                                      ELSE "returned",
                           whole |-> Whole(l), intf |-> 0 ]
            /\ UNCHANGED platform

\* Link( host, switch ), the ports left to the nodes
AddLink ==
    \E node1 \in { "h1", "h2" }, node2 \in { "s1" } :
        /\ Len(links) < MaxLinks
        /\ SetLinkState(LinkInit(platform, LinkState, node1, node2,
                                 NotGiven, NotGiven))
        /\ linkOp' = [ op |-> "init", link |-> Len(links) + 1,
                       status |-> "returned", whole |-> TRUE, intf |-> 0 ]
        /\ UNCHANGED platform

\* intf.delete(), on an interface its node still has
DeleteIntf ==
    \E i \in 1..Len(intfs) :
        /\ i \in Keys(ports[intfs[i].node])
        /\ LET r == IntfDelete(platform, LinkState, i)
           IN  /\ SetLinkState(r.st)
               /\ linkOp' = [ op |-> "intf delete", link |-> 0,
                              status |-> IF r.raised THEN "raised"
                                         ELSE "returned",
                              whole |-> FALSE, intf |-> i ]
        /\ UNCHANGED platform

\* the names interfaces are renamed to
RenameNames == { << "wan", "-eth", 0 >>, << "lan", "-eth", 0 >> }

\* intf.rename( newname ), on an interface its node still has, to a name
\* no other interface of the node goes by
RenameIntf ==
    \E i \in 1..Len(intfs), newname \in RenameNames :
        /\ i \in Keys(ports[intfs[i].node])
        /\ \A j \in Keys(ports[intfs[i].node]) \ { i } : intfs[j].name # newname
        /\ SetLinkState(IntfRename(platform, LinkState, i, newname))
        /\ linkOp' = [ op |-> "intf rename", link |-> 0,
                       status |-> "returned", whole |-> FALSE, intf |-> i ]
        /\ UNCHANGED platform

(***************************************************************************)
(* Nodes: creation (getShell) and terminate, per platform.                 *)
(* A node record: st is "free" (no object), "up", "failed" (the            *)
(* constructor raised) or "down" (terminated); rdid and pair are 0 and -1  *)
(* for None; shell is "none", "alive" or "exited".                         *)
(***************************************************************************)
RdomainLimit == 256
MaxSlots == 2
MaxCreate == 3
MaxTerms == 2

NoNode == [ st |-> "free", inNamespace |-> FALSE, rdid |-> 0, pair |-> -1,
            shell |-> "none", mounted |-> 0, registered |-> FALSE,
            terms |-> 0, created |-> 0, destroyed |-> 0 ]

\* openbsd Node.getShell.  error() is not among the names the module
\* imports, so the ceiling check raises NameError where it meant to exit.
\* The method returns None: it starts no shell itself.
openbsdGetShell(ns, inNamespace) ==
    IF inNamespace
    THEN LET pair  == ns.Intf_index
             rdid  == ns.Node_index
             index == ns.Node_index + 1
             s1    == [ ns EXCEPT !.Intf_index = @ + 1, !.Node_index = index ]
         IN  IF index = RdomainLimit
             THEN [ ns |-> s1, pair |-> pair, rdid |-> rdid, raised |-> TRUE,
                    shell |-> "none" ]
             ELSE [ ns |-> [ s1 EXCEPT !.anchors = @ \cup { << pair, rdid >> } ],
                    pair |-> pair, rdid |-> rdid, raised |-> FALSE,
                    shell |-> "none" ]
    ELSE [ ns |-> ns, pair |-> -1, rdid |-> 0, raised |-> FALSE,
           shell |-> "none" ]

\* linux Node.getShell: mnexec starts the shell, in a namespace if asked
linuxGetShell(ns, inNamespace) ==
    [ ns |-> ns, pair |-> -1, rdid |-> 0, raised |-> FALSE,
      shell |-> "alive" ]

getShell(plat, ns, inNamespace) ==
    IF plat = "openbsd" THEN openbsdGetShell(ns, inNamespace)
    ELSE linuxGetShell(ns, inNamespace)

\* mountPrivateDirs: linux mounts each directory, openbsd does nothing
mountPrivateDirs(plat, dirs) == IF plat = "openbsd" THEN 0 ELSE dirs

\* BaseNode.__init__: the shell is started, the private directories mounted.
\* Where getShell returned None the node has the shell handle its session
\* gave it, if any.
newNode(plat, ns, slot, inNamespace, dirs, handle) ==
    LET g == getShell(plat, ns, inNamespace)
        made == [ st |-> IF g.raised THEN "failed" ELSE "up",
                  inNamespace |-> inNamespace, rdid |-> g.rdid,
                  pair |-> g.pair,
                  shell |-> IF g.raised THEN "none"
                            ELSE IF g.shell = "none" THEN handle
                            ELSE g.shell,
                  mounted |-> IF g.raised THEN 0
                              ELSE mountPrivateDirs(plat, dirs),
                  registered |-> ~g.raised, terms |-> 0,
                  created |-> IF << g.pair, g.rdid >> \in g.ns.anchors
                              THEN 1 ELSE 0,
                  destroyed |-> 0 ]
    IN  [ ns |-> [ g.ns EXCEPT
                     !.vnodes[slot] = made,
                     !.attempts = IF plat = "openbsd" /\ inNamespace
                                  THEN Append(@, [ rdid |-> g.rdid,
                                                   ok |-> ~g.raised,
                                                   anchor |-> << g.pair, g.rdid >>
                                                              \in g.ns.anchors ])
                                  ELSE @ ],
          raised |-> g.raised ]

\* linux unmountPrivateDirs: one umount per private directory
unmountPrivateDirs(n) == [ i \in 1..n.mounted |-> "umount" ]

\* os.killpg( self.shell.pid, signal.SIGHUP ), if there is a live shell
killShell(n) == IF n.shell = "alive" THEN << "killpg" >> ELSE << >>

\* linux Node.terminate: the steps, in order
linuxTerminate(n) ==
    unmountPrivateDirs(n) \o killShell(n) \o << "cleanup" >>

\* openbsd Node.terminate: the steps, in order
openbsdTerminate(n) ==
    (IF n.rdid # 0 THEN << "destroy" >> ELSE << >>)
    \o killShell(n) \o << "cleanup" >>

terminate(plat, n) ==
    IF plat = "openbsd" THEN openbsdTerminate(n) ELSE linuxTerminate(n)

\* how many 'ifconfig <pair> destroy' commands a terminate issues
destroys(steps) ==
    Cardinality({ i \in 1..Len(steps) : steps[i] = "destroy" })

\* the node after terminate: BaseNode.cleanup forgets the interfaces
terminated(n) ==
    [ n EXCEPT !.st = "down", !.mounted = 0, !.registered = FALSE,
               !.terms = @ + 1 ]

NodeState == [ Node_index |-> Node_index, Intf_index |-> Intf_index,
               vnodes |-> vnodes, anchors |-> anchors, attempts |-> attempts ]

SetNodeState(ns) ==
    /\ Node_index' = ns.Node_index
    /\ Intf_index' = ns.Intf_index
    /\ vnodes' = ns.vnodes
    /\ anchors' = ns.anchors
    /\ attempts' = ns.attempts

InitNode ==
    /\ Node_index = 1
    /\ Intf_index = 0
    /\ vnodes = [ s \in 1..MaxSlots |-> NoNode ]
    /\ anchors = { }
    /\ attempts = << >>
    /\ nodeOp = [ op |-> "none", slot |-> 0, status |-> "none",
                  steps |-> << >>, shell |-> "none", made |-> 0 ]

\* Node( name, inNamespace ): a new object takes a slot no live object has
CreateNode(slots, limit, maxDirs, handles) ==
    \E slot \in 1..slots, inNamespace \in BOOLEAN, dirs \in 0..maxDirs,
       handle \in handles :
        /\ nodeOp.made < limit
        /\ vnodes[slot].st # "up"
        /\ LET r == newNode(platform, NodeState, slot, inNamespace, dirs,
                            handle)
           IN  /\ SetNodeState(r.ns)
               /\ nodeOp' = [ op |-> "create", slot |-> slot,
                              status |-> IF r.raised THEN "raised"
                                         ELSE "returned",
                              steps |-> << >>, shell |-> "none",
                              made |-> nodeOp.made + 1 ]

\* node.terminate(), also on a node that never started or is already down
TerminateNode(slots) ==
    \E slot \in 1..slots :
        /\ vnodes[slot].st # "free"
        /\ vnodes[slot].terms < MaxTerms
        /\ vnodes' = [ vnodes EXCEPT ![slot] =
                         [ terminated(@) EXCEPT !.destroyed =
                             @ + destroys(terminate(platform, vnodes[slot])) ] ]
        /\ anchors' = IF destroys(terminate(platform, vnodes[slot])) > 0
                      THEN anchors \ { << vnodes[slot].pair, vnodes[slot].rdid >> }
                      ELSE anchors
        /\ nodeOp' = [ nodeOp EXCEPT
                         !.op = "terminate", !.slot = slot,
                         !.status = "returned",
                         !.steps = terminate(platform, vnodes[slot]),
                         !.shell = vnodes[slot].shell ]
        /\ UNCHANGED << Node_index, Intf_index, attempts >>

\* the shell process of a node ends
ShellExits(slots) ==
    \E slot \in 1..slots :
        /\ vnodes[slot].shell = "alive"
        /\ vnodes' = [ vnodes EXCEPT ![slot].shell = "exited" ]
        /\ UNCHANGED << Node_index, Intf_index, anchors, attempts, nodeOp >>

CreateSome ==
    CreateNode(MaxSlots, MaxCreate, 1, { "none", "alive" })
    /\ UNCHANGED platform
TerminateSome == TerminateNode(MaxSlots) /\ UNCHANGED platform
ShellExitsSome == ShellExits(MaxSlots) /\ UNCHANGED platform

\* one node at a time, as many as the rdomain ceiling and two more
CreateNext ==
    CreateNode(1, RdomainLimit + 1, 0, { "none" }) /\ UNCHANGED platform
TerminateIt == TerminateNode(1) /\ UNCHANGED platform

(***************************************************************************)
(* Cleanup (clean.py).  cleanup() runs its stages one after another; the   *)
(* killprocs loops poll the process list, and a process that was sent      *)
(* SIGKILL leaves the list when it exits.                                  *)
(***************************************************************************)
MaxRegs == 3
Callbacks == { "cb1", "cb2" }

EthIfaces == { "h1-eth0", "h2-eth0" }
NodeShell == "bash --norc -is mininet:h1"
TunnelProc == "ssh -o Tunnel=Ethernet"
ZombieProc == "controller"

\* the words of the zombies string, as the shell splits it: the adjacent
\* string literals are joined without a space in between
zombies == { "controller", "ofprotocol", "ofdatapath", "ping",
             "nox_corelt-nox_core", "ovs-openflowd",
             "ovs-controllerovs-testcontroller", "udpbwtest", "mnexec",
             "ivs", "ryu-manager" }

\* does a command line match the pattern (pgrep -f, pkill -f, awk)
Matches(pattern, cmdline) ==
    CASE pattern = "[m]ininet:"        -> cmdline = NodeShell
      [] pattern = "[T]unnel=Ethernet" -> cmdline = TunnelProc
      [] OTHER                         -> FALSE

\* pkill -9 -f <pattern>: every matching process is sent SIGKILL
pkill9(ps, pattern) ==
    { IF Matches(pattern, pr[1]) THEN << pr[1], "killed" >> ELSE pr : pr \in ps }

\* killall [-9] <names>: every process of one of the names is signalled
killall(ps, names) ==
    { IF pr[1] \in names THEN << pr[1], "killed" >> ELSE pr : pr \in ps }

\* _coPids / _popenPids: the matching processes still in the process list
pidsFunc(ps, pattern) == { pr \in ps : Matches(pattern, pr[1]) }

\* a loop that polls once and leaves whatever it finds
killprocsDoneMut(pids) == TRUE

\* the loop test of killprocs: leave the loop when no pids are listed
killprocsDone(pids) == pids = { }

\* the '-ethN' names egrep -o finds in a listing
ethNames(names) == { n \in names : n \in EthIfaces }

\* the names the OpenBSD listing (sed on 'ifconfig pair') prints
pairNames(names) == { n \in names : n \in { "pair0" } }

\* _iplinkClean / _ifcfgClean / _ifcfgCleanLo: the interfaces left.  The
\* OpenBSD lo listing is not split into lines: its characters are destroyed
\* one by one, and no interface has a one-character name.
cleanLinks(os, names) ==
    IF os = "OpenBSD" THEN (names \ pairNames(names)) \ { "tap9" }
    ELSE (names \ ethNames(names)) \ { "tap9" }

\* the commands cleanLinks issues, in order
cleanLinksCmds(os, names) ==
    LET listed == IF os = "OpenBSD" THEN pairNames(names) ELSE ethNames(names)
        del    == IF os = "Linux" THEN "ip link del" ELSE "ifconfig destroy"
    IN  << "list links" >>
        \o (IF listed # { } THEN << del >> ELSE << >>)
        \o (IF os = "OpenBSD" THEN << "list lo" >> ELSE << >>)
        \o << "list all" >>
        \o (IF "tap9" \in names THEN << del \o " tap9" >> ELSE << >>)

\* the second pass over the bridges: ovs-vsctl del-br for each one listed
ovsSecondPass(listed) == listed \ listed

\* registration without the membership test
addCleanupCallbackMut(cbs, callback) == Append(cbs, callback)

\* Cleanup.addCleanupCallback
addCleanupCallback(cbs, callback) ==
    IF \A i \in 1..Len(cbs) : cbs[i] # callback
    THEN Append(cbs, callback) ELSE cbs

Stages == << "zombies", "tmp", "screens", "dps", "ovs", "links",
             "nodes", "nodesLoop", "jails", "tunnel", "tunnelLoop",
             "ssh", "sshLoop", "rmssh", "callbacks", "done" >>

InitClean ==
    /\ uname \in { "Linux", "FreeBSD", "OpenBSD" }
    /\ ifaces \in IF uname = "OpenBSD" THEN SUBSET { "pair0", "lo1" }
                  ELSE SUBSET (EthIfaces \cup { "tap9" })
    /\ procs \in SUBSET { << NodeShell, "run" >>, << TunnelProc, "run" >>,
                          << ZombieProc, "run" >> }
    /\ bridges \in { { }, { "s1", "s2" } }
    /\ dps \in { { }, { "nl:0" } }
    /\ jails \in IF uname = "FreeBSD" THEN { { }, { "mininet:h1" } } ELSE { { } }
    /\ callbacks = << >>
    /\ regs = << >>
    /\ cpc = "idle"
    /\ clog = << >>
    /\ cruns = 0

Issue(events) == clog' = clog \o events

\* addCleanupCallback( cb ), between cleanup runs
Register ==
    \E cb \in Callbacks :
        /\ cpc \in { "idle", "done" }
        /\ Len(regs) < MaxRegs
        /\ callbacks' = addCleanupCallback(callbacks, cb)
        /\ regs' = Append(regs, cb)
        /\ cpc' = "idle"
        /\ UNCHANGED << uname, ifaces, procs, bridges, dps, jails, clog, cruns >>

\* cleanup() is called
MaxRuns == 2
CleanupStart ==
    /\ cpc \in { "idle", "done" }
    /\ cruns < MaxRuns
    /\ cpc' = "zombies"
    /\ Issue(<< "cleanup" >>)
    /\ UNCHANGED << uname, ifaces, procs, bridges, dps, jails, callbacks,
                    regs, cruns >>

\* killall, sleep, killall -9, pkill -9 -f "sudo mnexec"
CleanZombies ==
    /\ cpc = "zombies"
    /\ procs' = killall(killall(procs, zombies), zombies)
    /\ Issue(<< "killall", "sleep 1", "killall -9", "pkill sudo mnexec" >>)
    /\ cpc' = "tmp"
    /\ UNCHANGED << uname, ifaces, bridges, dps, jails, callbacks, regs, cruns >>

\* rm -f /tmp/vconn* ..., then cleanUpScreens()
CleanTmp ==
    /\ cpc = "tmp"
    /\ Issue(<< "rm tmp", "cleanUpScreens" >>)
    /\ cpc' = "dps"
    /\ UNCHANGED << uname, ifaces, procs, bridges, dps, jails, callbacks,
                    regs, cruns >>

\* dpctl deldp for every datapath the process list shows
CleanDps ==
    /\ cpc = "dps"
    /\ Issue(<< "list dps" >> \o (IF dps # { } THEN << "dpctl deldp" >> ELSE << >>))
    /\ dps' = { }
    /\ cpc' = "ovs"
    /\ UNCHANGED << uname, ifaces, procs, bridges, jails, callbacks, regs, cruns >>

\* ovs-vsctl: one command deleting every bridge, which may leave some
\* behind, then one del-br for each bridge still listed
CleanOvs ==
    /\ cpc = "ovs"
    /\ \E left \in SUBSET bridges :
          /\ Issue(<< "ovs-vsctl list-br" >>
                   \o (IF bridges # { } THEN << "ovs-vsctl --if-exists del-br" >>
                       ELSE << >>)
                   \o << "ovs-vsctl list-br" >>
                   \o (IF left # { } THEN << "ovs-vsctl del-br" >> ELSE << >>))
          /\ bridges' = ovsSecondPass(left)
    /\ cpc' = "links"
    /\ UNCHANGED << uname, ifaces, procs, dps, jails, callbacks, regs, cruns >>

\* cleanLinks( args )
CleanLinks ==
    /\ cpc = "links"
    /\ Issue(cleanLinksCmds(uname, ifaces))
    /\ ifaces' = cleanLinks(uname, ifaces)
    /\ cpc' = "nodes"
    /\ UNCHANGED << uname, procs, bridges, dps, jails, callbacks, regs, cruns >>

\* killprocs: the first pkill -9
KillFirst(stage, pattern, next) ==
    /\ cpc = stage
    /\ procs' = pkill9(procs, pattern)
    /\ Issue(<< "pkill -9 -f " \o pattern >>)
    /\ cpc' = next
    /\ UNCHANGED << uname, ifaces, bridges, dps, jails, callbacks, regs, cruns >>

\* killprocs: one round of the loop
KillPoll(stage, pattern, next, last) ==
    /\ cpc = stage
    /\ IF killprocsDone(pidsFunc(procs, pattern))
       THEN /\ cpc' = next
            /\ Issue(<< "pids " \o pattern >> \o last)
            /\ UNCHANGED procs
       ELSE /\ cpc' = stage
            /\ procs' = pkill9(procs, pattern)
            /\ clog' = IF clog[Len(clog)] = "sleep .5" THEN clog
                       ELSE clog \o << "pids " \o pattern,
                                       "pkill -9 -f " \o pattern, "sleep .5" >>
    /\ UNCHANGED << uname, ifaces, bridges, dps, jails, callbacks, regs, cruns >>

\* cleanNodes( pidsFunc, '[m]ininet:' )
KillNodes == KillFirst("nodes", "[m]ininet:", "nodesLoop")
KillNodesLoop ==
    KillPoll("nodesLoop", "[m]ininet:",
             IF uname = "FreeBSD" THEN "jails" ELSE "tunnel", << >>)

\* killnodes (FreeBSD): jail -r for every jail named mininet:...
CleanJails ==
    /\ cpc = "jails"
    /\ Issue(<< "jls name" >> \o (IF jails # { } THEN << "jail -r" >> ELSE << >>))
    /\ jails' = { }
    /\ cpc' = "tunnel"
    /\ UNCHANGED << uname, ifaces, procs, bridges, dps, callbacks, regs, cruns >>

\* killprocs( pidsFunc, '[T]unnel=Ethernet' )
KillTunnels == KillFirst("tunnel", "[T]unnel=Ethernet", "tunnelLoop")
KillTunnelsLoop == KillPoll("tunnelLoop", "[T]unnel=Ethernet", "ssh", << >>)

\* killprocs( pidsFunc, '.ssh\/mn' ), then rm -f ~/.ssh/mn/*
KillSsh == KillFirst("ssh", ".ssh/mn", "sshLoop")
KillSshLoop == KillPoll("sshLoop", ".ssh/mn", "callbacks", << "rm ~/.ssh/mn" >>)

\* for callback in cls.callbacks: callback()
RunCallbacks ==
    /\ cpc = "callbacks"
    /\ Issue([ i \in 1..Len(callbacks) |-> "call " \o callbacks[i] ])
    /\ cpc' = "done"
    /\ cruns' = cruns + 1
    /\ UNCHANGED << uname, ifaces, procs, bridges, dps, jails, callbacks, regs >>

\* a process that was sent SIGKILL exits
ProcDies ==
    \E pr \in procs :
        /\ pr[2] = "killed"
        /\ procs' = procs \ { pr }
        /\ UNCHANGED << uname, ifaces, bridges, dps, jails, callbacks, regs,
                        cpc, clog, cruns >>

(***************************************************************************)
(* The link stage of cleanup on Linux, over the interfaces links made      *)
(* (clean.py _iplinkClean).  Cleanup runs in the root namespace.           *)
(***************************************************************************)
MaxBuilds == 3
LinkCounts == { 250 }

\* the chunk size n of _iplinkClean
chunkSize == 1000

\* the nodes whose shell runs without a network namespace (no 'n' in the
\* mnexec options): their interfaces are in the root namespace
RootNodes == { "s1", "s2" }

\* Link.__init__ makes interfaces 2l-1 and 2l for link l: the other end
Peer(i) == IF i % 2 = 1 THEN i + 1 ELSE i - 1

\* 'ip link show' in the root namespace has a line for interface i
Shown(st, i) ==
    /\ st.intfs[i].node \in RootNodes
    /\ { st.intfs[i].realname, st.intfs[Peer(i)].realname } \in st.kernel

\* the pattern '([-_.[:alnum:]]+-eth[[:digit:]]+)': a word, -eth, digits
egrepMatch(name) == name[2] = "-eth" /\ name[3] \in Nat

\* what egrep -o prints for the line of interface i. The line begins
\* '<index>: <name>@<peer>:', where <peer> is the peer's name when the peer
\* is in the same namespace and 'if<index>' when it is not.
showLine(st, i) ==
    IF ~Shown(st, i) THEN << >>
    ELSE SelectSeq(<< st.intfs[i].realname >>
                   \o (IF Shown(st, Peer(i))
                       THEN << st.intfs[Peer(i)].realname >> ELSE << >>),
                   egrepMatch)

\* sh( "ip link show | egrep -o ..." ).splitlines(), for interfaces lo..hi
RECURSIVE showLinks(_, _, _)
showLinks(st, lo, hi) ==
    IF lo > hi THEN << >>
    ELSE IF lo = hi THEN showLine(st, lo)
    ELSE showLinks(st, lo, (lo + hi) \div 2)
         \o showLinks(st, (lo + hi) \div 2 + 1, hi)

\* chunks that leave out the first name of each slice
iplinkBatchesMut(lst) ==
    [ b \in 1..((Len(lst) + chunkSize - 1) \div chunkSize) |->
        SubSeq(lst, (b - 1) * chunkSize + 2,
               IF b * chunkSize < Len(lst) THEN b * chunkSize ELSE Len(lst)) ]

\* for i in range( 0, len( links ), n ): links[ i : i + n ]
iplinkBatches(lst) ==
    [ b \in 1..((Len(lst) + chunkSize - 1) \div chunkSize) |->
        SubSeq(lst, (b - 1) * chunkSize + 1,
               IF b * chunkSize < Len(lst) THEN b * chunkSize ELSE Len(lst)) ]

\* the names of one batch
batchNames(batch) == { batch[k] : k \in 1..Len(batch) }

\* _iplinkClean: the listing, the batches, and the kernel after every
\* 'ip link del <name>' of every batch (failures are discarded)
iplinkClean(st) ==
    LET lst     == showLinks(st, 1, Len(st.intfs))
        batches == iplinkBatches(lst)
        deleted == UNION { batchNames(batches[b]) : b \in 1..Len(batches) }
    IN  [ links |-> lst, batches |-> batches,
          kernel |-> { pr \in st.kernel : pr \cap deleted = { } } ]

\* count links made one after another between the same two nodes, the
\* caller numbering the ports upwards from port1 and port2: the first half
\* of the calls, then the rest from the state they leave
RECURSIVE manyLinks(_, _, _, _, _, _, _)
manyLinks(plat, st, node1, node2, port1, port2, count) ==
    IF count = 0 THEN st
    ELSE IF count = 1 THEN LinkInit(plat, st, node1, node2, port1, port2)
    ELSE LET half == manyLinks(plat, st, node1, node2, port1, port2,
                               count \div 2)
         IN  IF Len(half.links) = Len(st.links) + count \div 2
             THEN manyLinks(plat, half, node1, node2, port1 + count \div 2,
                            port2 + count \div 2, count - count \div 2)
             ELSE half

InitSweep ==
    sweep = [ ran |-> FALSE, builds |-> 0, present |-> { }, before |-> { },
              batches |-> << >> ]

\* Link( node1, s2 ), from a host or from the other switch: the ports left
\* to the nodes, or a port given where it is free
BuildLink ==
    \E node1 \in { "h1", "s1" }, port \in GivenPorts \cup { NotGiven } :
        /\ sweep.builds < MaxBuilds
        /\ PortFree(node1, port) /\ PortFree("s2", port)
        /\ SetLinkState(LinkInit(platform, LinkState, node1, "s2", port, port))
        /\ linkOp' = [ op |-> "init", link |-> Len(links) + 1,
                       status |-> "returned", whole |-> TRUE, intf |-> 0 ]
        /\ sweep' = [ sweep EXCEPT !.builds = @ + 1 ]
        /\ UNCHANGED platform

\* a topology's run of links between node1 and s2, the ports numbered
\* upwards from each node's next free port
BuildLinks ==
    \E node1 \in { "h1", "s1" }, count \in LinkCounts :
        /\ sweep.builds < MaxBuilds
        /\ SetLinkState(manyLinks(platform, LinkState, node1, "s2",
                                  newPort(LinkState, node1),
                                  newPort(LinkState, "s2"), count))
        /\ linkOp' = [ op |-> "init", link |-> Len(links) + count,
                       status |-> "returned", whole |-> TRUE, intf |-> 0 ]
        /\ sweep' = [ sweep EXCEPT !.builds = @ + 1 ]
        /\ UNCHANGED platform

\* cleanLinks( args ) on Linux
SweepLinks ==
    LET r == iplinkClean(LinkState)
    IN  /\ kernel' = r.kernel
        /\ sweep' = [ sweep EXCEPT
                        !.ran = TRUE,
                        !.present = UNION kernel,
                        !.before = { intfs[i].realname : i \in { j \in 1..Len(intfs) : Shown(LinkState, j) } },
                        !.batches = r.batches ]
        /\ UNCHANGED << platform, nameToIntf, ports, portNames, intfs, links,
                        linkOp >>

(***************************************************************************)
(* OVSIntf.ifconfig                                                        *)
(***************************************************************************)
MaxArgs == 3
ArgWords == { "up", "down", "", "u", "p" }

\* ' '.join( args )
RECURSIVE join(_)
join(args) ==
    IF args = << >> THEN ""
    ELSE IF Len(args) = 1 THEN args[1]
    ELSE args[1] \o " " \o join(Tail(args))

\* a test of the first argument alone
ovsIfconfigMut(args) ==
    [ status |-> IF args # << >> /\ args[1] = "up" THEN "returned" ELSE "raised",
      cmds |-> << >> ]

\* OVSIntf.ifconfig: return for 'up', raise for anything else
ovsIfconfig(args) ==
    [ status |-> IF join(args) = "up" THEN "returned" ELSE "raised",
      cmds |-> << >> ]

InitOVS == ovsOp = [ args |-> << >>, status |-> "none", cmds |-> << >> ]

\* intf.ifconfig( *args ) on a patch interface
OVSIfconfig ==
    \E k \in 0..MaxArgs : \E args \in [ 1..k -> ArgWords ] :
        ovsOp' = [ args |-> args, status |-> ovsIfconfig(args).status,
                   cmds |-> ovsIfconfig(args).cmds ]

vars == << tcVars, linkVars, nodeVars, cleanVars, sweepVars, ovsVars >>

Init == InitTC /\ InitLink /\ InitNode /\ InitClean /\ InitSweep /\ InitOVS

\* the same, with a freshly created interface about to be configured
InitCall == InitTCCall /\ InitLink /\ InitNode /\ InitClean /\ InitSweep /\ InitOVS

\* a fresh process: nothing is left over from an earlier session
Quiet ==
    /\ uname = "Linux" /\ ifaces = { } /\ procs = { } /\ bridges = { }
    /\ dps = { } /\ jails = { }

\* a Linux host whose kernel default prints priomap
LinuxHost == kdef = "priomap" /\ platform = "linux"

TCOnly == UNCHANGED << linkVars, nodeVars, cleanVars, sweepVars, ovsVars >>
LinkOnly == UNCHANGED << tcVars, nodeVars, cleanVars, sweepVars, ovsVars >>
NodeOnly == UNCHANGED << tcVars, cleanVars, nameToIntf, ports, portNames,
                         intfs, links, kernel, linkOp, sweepVars, ovsVars >>
CleanOnly == UNCHANGED << tcVars, linkVars, nodeVars, sweepVars, ovsVars >>
SweepOnly == UNCHANGED << tcVars, nodeVars, cleanVars, ovsVars >>
OVSOnly == UNCHANGED << tcVars, linkVars, nodeVars, cleanVars, sweepVars >>

NextTC == Config /\ TCOnly

NextTCCall == ConfigOnce /\ TCOnly

NextLink ==
    \/ NewLink /\ LinkOnly
    \/ DeleteLink /\ LinkOnly
    \/ StopLink /\ LinkOnly

NextIntf ==
    \/ AddLink /\ LinkOnly
    \/ DeleteIntf /\ LinkOnly
    \/ RenameIntf /\ LinkOnly

NextSweep ==
    \/ BuildLink /\ SweepOnly
    \/ BuildLinks /\ SweepOnly
    \/ SweepLinks /\ SweepOnly

NextOVS == OVSIfconfig /\ OVSOnly

NextNode ==
    \/ CreateSome /\ NodeOnly
    \/ TerminateSome /\ NodeOnly
    \/ ShellExitsSome /\ NodeOnly

NextRdomain ==
    \/ CreateNext /\ NodeOnly
    \/ TerminateIt /\ NodeOnly

NextClean ==
    \/ Register /\ CleanOnly
    \/ CleanupStart /\ CleanOnly
    \/ CleanZombies /\ CleanOnly
    \/ CleanTmp /\ CleanOnly
    \/ CleanDps /\ CleanOnly
    \/ CleanOvs /\ CleanOnly
    \/ CleanLinks /\ CleanOnly
    \/ KillNodes /\ CleanOnly
    \/ KillNodesLoop /\ CleanOnly
    \/ CleanJails /\ CleanOnly
    \/ KillTunnels /\ CleanOnly
    \/ KillTunnelsLoop /\ CleanOnly
    \/ KillSsh /\ CleanOnly
    \/ KillSshLoop /\ CleanOnly
    \/ RunCallbacks /\ CleanOnly
    \/ ProcDies /\ CleanOnly

\* the steps cleanup() takes by itself once it was called, one at a time
CleanRun ==
    \/ CleanZombies \/ CleanTmp \/ CleanDps \/ CleanOvs \/ CleanLinks
    \/ KillNodes \/ KillNodesLoop \/ CleanJails \/ KillTunnels
    \/ KillTunnelsLoop \/ KillSsh \/ KillSshLoop \/ RunCallbacks

\* the states each specification starts from
InitTCSpec == Quiet /\ platform = "linux" /\ Init
InitTCCallSpec == Quiet /\ platform = "linux" /\ InitCall
InitLinkSpec == Quiet /\ kdef = "priomap" /\ Init
InitIntfSpec == Quiet /\ kdef = "priomap" /\ Init
InitSweepSpec == Quiet /\ kdef = "priomap" /\ platform = "linux" /\ Init
InitOVSSpec == Quiet /\ kdef = "priomap" /\ platform = "linux" /\ Init
InitNodeSpec == Quiet /\ kdef = "priomap" /\ Init
InitRdomainSpec == Quiet /\ kdef = "priomap" /\ platform = "openbsd" /\ Init
InitCleanSpec == LinuxHost /\ Init
InitKillSpec == LinuxHost /\ ifaces = { } /\ bridges = { } /\ dps = { } /\ Init

\* calls of TCIntf.config, one after another on one interface
SpecTC == InitTCSpec /\ [][NextTC]_vars

\* one call of TCIntf.config, with any arguments
SpecTCCall == InitTCCallSpec /\ [][NextTCCall]_vars

\* links made and deleted, on either platform
SpecLink == InitLinkSpec /\ [][NextLink]_vars

\* interfaces made by links, then renamed and deleted one by one
SpecIntf == InitIntfSpec /\ [][NextIntf]_vars

\* topologies built a run of links at a time, and the link stage of cleanup
SpecSweep == InitSweepSpec /\ [][NextSweep]_vars

\* ifconfig calls on a patch interface, with any arguments
SpecOVS == InitOVSSpec /\ [][NextOVS]_vars

\* a few nodes created and terminated, on either platform
SpecNode == InitNodeSpec /\ [][NextNode]_vars

\* nodes created one after another, up to the rdomain ceiling and beyond
SpecRdomain == InitRdomainSpec /\ [][NextRdomain]_vars

\* cleanup() run after a crash left anything behind, on any platform
SpecClean == InitCleanSpec /\ [][NextClean]_vars

\* cleanup() with stale processes about, on Linux or FreeBSD: a call that
\* was made runs on step by step (the code is sequential and nothing
\* cancels it); whether a signalled process ever exits is left open
SpecKill == InitKillSpec /\ [][NextClean]_vars /\ WF_vars(CleanRun /\ CleanOnly)

(***************************************************************************)
(* Reading a command back                                                  *)
(***************************************************************************)
IsDigit(c) == \E d \in 0..9 : DigitChar(d) = c
DigitVal(c) == CHOOSE d \in 0..9 : DigitChar(d) = c

RECURSIVE ParseNat(_)
ParseNat(cs) ==
    IF cs = << >> THEN 0
    ELSE 10 * ParseNat(SubSeq(cs, 1, Len(cs) - 1)) + DigitVal(cs[Len(cs)])

\* a text of the shape <digits>.<digits>
IsFixed(cs) ==
    \E dot \in 2..(Len(cs) - 1) :
        /\ cs[dot] = "."
        /\ \A i \in (1..Len(cs)) \ { dot } : IsDigit(cs[i])
DotOf(cs) == CHOOSE dot \in 1..Len(cs) : cs[dot] = "."
Decimals(cs) == Len(cs) - DotOf(cs)
\* its value, in millionths (for at most 6 decimals)
FixedValue(cs) ==
    ParseNat(SubSeq(cs, 1, DotOf(cs) - 1)) * Scale
    + ParseNat(SubSeq(cs, DotOf(cs) + 1, Len(cs))) * Pow10(6 - Decimals(cs))

HasArg(cmd, key) == \E i \in 1..Len(cmd.args) : cmd.args[i][1] = key
ArgOf(cmd, key) ==
    cmd.args[CHOOSE i \in 1..Len(cmd.args) : cmd.args[i][1] = key][2]

BwKinds == { "htb", "hfsc", "tbf" }
Issued == { tcRes.issued[i] : i \in 1..Len(tcRes.issued) }
BwStageCmds == { c \in Issued : c.kind \in BwKinds }
NetemCmds == { c \in Issued : c.kind = "netem" }
Called == tcRes.status # "none"

\* C1: config(bw=b) alone, with any discipline: for 0 <= b <= bwParamMax a
\* bandwidth-stage command with rate b is issued and the parent returned is
\* 5:1; for b outside the range no bandwidth-stage command is issued and an
\* error is reported.
C1_BandwidthStage ==
    ( /\ Called
      /\ tcArgs.bw.t = "num"
      /\ IsNone(tcArgs.delay) /\ IsNone(tcArgs.jitter)
      /\ IsNone(tcArgs.loss) /\ IsNone(tcArgs.max_queue_size)
      /\ tcArgs.speedup = 0 /\ ~tcArgs.enable_ecn /\ ~tcArgs.enable_red )
    => IF 0 <= tcArgs.bw.v /\ tcArgs.bw.v <= bwParamMax
       THEN /\ tcRes.status = "returned"
            /\ \E c \in BwStageCmds :
                  /\ HasArg(c, "rate")
                  /\ IsFixed(ArgOf(c, "rate"))
                  /\ FixedValue(ArgOf(c, "rate")) = tcArgs.bw.v * Scale
            /\ tcRes.parent = "5:1"
       ELSE /\ BwStageCmds = { }
            /\ tcRes.errors # << >>

\* C2: a loss in [0,100] (0 included, other parameters supplied or not)
\* gives a netem command that carries the loss with exactly 5 decimals; a
\* loss outside [0,100] gives no netem command.
C2_LossNetem ==
    ( /\ tcRes.status \in { "early", "returned" }
      /\ tcArgs.loss.t = "num"
      /\ ~Lt(tcArgs.delay, 0) /\ ~Lt(tcArgs.jitter, 0) )
    => IF 0 <= tcArgs.loss.v /\ tcArgs.loss.v <= 100 * Scale
       THEN \E c \in NetemCmds :
               /\ HasArg(c, "loss")
               /\ IsFixed(ArgOf(c, "loss"))
               /\ Decimals(ArgOf(c, "loss")) = 5
               /\ LET d == FixedValue(ArgOf(c, "loss")) - tcArgs.loss.v
                  IN  -5 <= d /\ d <= 5
       ELSE NetemCmds = { }

\* C3: a call that issues its chain on an interface whose state is not the
\* pristine default issues the root deletion first and only once; a call on
\* a pristine interface (qdisc show prints priomap or noqueue) issues none.
C3_RootDeletion ==
    tcRes.status = "returned"
    => /\ tcPre.root # "default"
          => /\ tcRes.cmds # << >>
             /\ tcRes.cmds[1] = DelRootCmd
             /\ \A i \in 2..Len(tcRes.cmds) : tcRes.cmds[i].op # "qdisc del"
       /\ ( tcPre.root = "default"
            /\ ("priomap" \in tcRes.shown \/ "noqueue" \in tcRes.shown) )
          => \A i \in 1..Len(tcRes.cmds) : tcRes.cmds[i].op # "qdisc del"

\* a second call re-shapes an interface an earlier call has shaped
C3_Witness ==
    /\ tcRes.status = "returned"
    /\ tcPre.root = "htb"
    /\ Len(tcRes.cmds) = 2
    /\ tcRes.cmds[1] = DelRootCmd
    /\ tcRes.cmds[2].op = "qdisc add"
    /\ qd.root = "tbf"

(***************************************************************************)
(* Links: what a link's two interfaces look like between operations.       *)
(* Link l was built by Link.__init__ from the interfaces 2l-1 and 2l.      *)
(***************************************************************************)
IntfsOf(l) == { 2 * l - 1, 2 * l }
Registered(i) == i \in Keys(ports[intfs[i].node])
Alive(i) == Registered(i) /\ intfs[i].link # 0
Deleted(i) == ~Registered(i) /\ intfs[i].link = 0
NamesKnown(node) == Keys(nameToIntf[node]) \cup Keys(portNames[node])

\* C4: after Link.delete() on a link as its constructor left it, neither
\* endpoint node has an entry for either interface name of the link, and
\* both interface objects have their link reference cleared, on every
\* platform.
C4_LinkDeleteClears ==
    (linkOp.op = "delete" /\ linkOp.whole)
    => LET l == links[linkOp.link]
       IN  /\ \A k \in 1..2 : \A m \in 1..2 :
                 l.names[k] \notin NamesKnown(l.nodes[m])
           /\ \A i \in IntfsOf(linkOp.link) : intfs[i].link = 0

\* C5: between operations, whether the last one returned or raised, the two
\* interfaces of every link are both registered and bound to the link or
\* both deleted.
C5_BothOrNeither ==
    \A l \in 1..Len(links) :
        \/ \A i \in IntfsOf(l) : Alive(i)
        \/ \A i \in IntfsOf(l) : Deleted(i)

(***************************************************************************)
(* Routing domains                                                         *)
(***************************************************************************)
MaxRdomains == RdomainLimit - 1

\* C6: the ids handed to isolated nodes rise strictly from 1; each of the
\* first 255 attempts succeeds with an anchor and an id in 1..255, and the
\* 256th fails without an anchor.
C6_RdomainAllocation ==
    \A k \in 1..Len(attempts) :
        /\ k = 1 => attempts[k].rdid = 1
        /\ k > 1 => attempts[k].rdid > attempts[k - 1].rdid
        /\ k <= MaxRdomains
           => /\ attempts[k].ok
              /\ attempts[k].anchor
              /\ attempts[k].rdid \in 1..MaxRdomains
        /\ k = MaxRdomains + 1
           => ~attempts[k].ok /\ ~attempts[k].anchor

\* C7: every isolated node holds an id in 1..255, the id handed out last
\* was never handed out before, and a node that is not isolated holds none
\* and uses none up.
C7_RdomainIds ==
    /\ \A s \in 1..MaxSlots :
          vnodes[s].st # "free"
          => IF vnodes[s].inNamespace
             THEN vnodes[s].rdid \in 1..MaxRdomains
             ELSE vnodes[s].rdid = 0
    /\ \A j \in 1..(Len(attempts) - 1) :
          attempts[j].rdid # attempts[Len(attempts)].rdid
    /\ Node_index = Len(attempts) + 1

(***************************************************************************)
(* Cleanup                                                                 *)
(***************************************************************************)
Range(seq) == { seq[i] : i \in 1..Len(seq) }

\* the part of the log the latest cleanup() run wrote
LastStart ==
    CHOOSE i \in 1..Len(clog) :
        clog[i] = "cleanup" /\ \A j \in (i + 1)..Len(clog) : clog[j] # "cleanup"
LastRun == SubSeq(clog, LastStart + 1, Len(clog))

\* what a crashed session leaves: its interfaces (-ethN names, or the pair
\* interfaces of OpenBSD), its node shells and its bridges
StaleIfaces == ethNames(ifaces) \cup pairNames(ifaces)
StaleShells == pidsFunc(procs, "[m]ininet:")
Stale == << StaleIfaces, StaleShells, bridges >>
Removals == { "ip link del", "ifconfig destroy",
              "ovs-vsctl --if-exists del-br", "ovs-vsctl del-br",
              "sleep .5" }

\* C8: a cleanup() run that completes leaves no stale interface, node shell
\* or bridge, whatever it started from; once one run has completed, nothing
\* a further run does changes any of the three.
C8_CleanupIdempotent ==
    /\ [](cpc = "done"
          => StaleIfaces = { } /\ StaleShells = { } /\ bridges = { })
    /\ [][cruns >= 1 => Stale' = Stale]_vars

\* two runs after a crash: the first removed links, bridges and a node
\* shell that took a second kill; the second found nothing to remove
C8_Witness ==
    /\ cpc = "done" /\ cruns = 2
    /\ { "ip link del", "ovs-vsctl --if-exists del-br", "sleep .5" }
          \subseteq Range(SubSeq(clog, 1, LastStart))
    /\ Range(LastRun) \cap Removals = { }
    /\ Stale = << { }, { }, { } >>

CallEvents == { "call " \o cb : cb \in Callbacks }
FirstReg(cb) == CHOOSE i \in 1..Len(regs) :
                    regs[i] = cb /\ \A j \in 1..(i - 1) : regs[j] # cb

\* C9: the callbacks kept are the distinct ones registered, in the order of
\* their first registration; a completed cleanup() run has called each of
\* them once, in that order, after every other stage has been issued.
C9_Callbacks ==
    /\ Range(callbacks) = Range(regs)
    /\ \A i \in 1..Len(callbacks), j \in 1..Len(callbacks) :
          i < j => /\ callbacks[i] # callbacks[j]
                   /\ FirstReg(callbacks[i]) < FirstReg(callbacks[j])
    /\ cpc = "done"
       => LET k == Len(LastRun) - Len(callbacks)
          IN  /\ k >= 0
              /\ \A i \in 1..Len(callbacks) :
                    LastRun[k + i] = "call " \o callbacks[i]
              /\ \A i \in 1..k : LastRun[i] \notin CallEvents
              /\ { "killall -9", "list links", "pkill -9 -f [m]ininet:",
                   "pkill -9 -f [T]unnel=Ethernet", "rm ~/.ssh/mn" }
                    \subseteq Range(SubSeq(LastRun, 1, k))

\* a callback registered twice, around another one, and a run after that
C9_Witness ==
    /\ cpc = "done"
    /\ regs = << "cb2", "cb1", "cb2" >>
    /\ Len(LastRun) >= 2
    /\ LastRun[Len(LastRun) - 1] = "call cb2"
    /\ LastRun[Len(LastRun)] = "call cb1"

(***************************************************************************)
(* Node.terminate                                                          *)
(***************************************************************************)
\* the place of a step in the order of termination
Rank(step) ==
    CASE step = "umount"  -> 1
      [] step = "killpg"  -> 2
      [] step = "destroy" -> 3
      [] step = "cleanup" -> 4

\* C10: terminate() unmounts, then signals the process group of a live
\* shell, then releases the anchor, then forgets the interfaces, on every
\* platform: no step comes before one of a lower place.
C10_TerminateOrder ==
    nodeOp.op = "terminate"
    => /\ \A i \in 1..Len(nodeOp.steps), j \in 1..Len(nodeOp.steps) :
             i < j => Rank(nodeOp.steps[i]) <= Rank(nodeOp.steps[j])
       /\ ("killpg" \in Range(nodeOp.steps)) = (nodeOp.shell = "alive")
       /\ nodeOp.steps[Len(nodeOp.steps)] = "cleanup"

\* C11: the anchor of an isolated routing-domain node is created once, and
\* once the node has been terminated, however often, one destroy command
\* has been issued for it; a node that is not isolated has no anchor
\* created and none destroyed.
C11_AnchorOnce ==
    platform = "openbsd"
    => \A s \in 1..MaxSlots :
          vnodes[s].st \in { "up", "down" }
          => IF vnodes[s].inNamespace
             THEN /\ vnodes[s].created = 1
                  /\ vnodes[s].destroyed = IF vnodes[s].terms = 0 THEN 0 ELSE 1
             ELSE vnodes[s].created = 0 /\ vnodes[s].destroyed = 0

(***************************************************************************)
(* TCIntf.config: what is skipped and what is issued                       *)
(***************************************************************************)
QdiscOps == { "qdisc show", "qdisc del", "qdisc add", "class add" }
NoneSupplied ==
    /\ IsNone(tcArgs.bw) /\ IsNone(tcArgs.delay)
    /\ IsNone(tcArgs.loss) /\ IsNone(tcArgs.max_queue_size)

\* C12: with none of bw, delay, loss and max_queue_size supplied the call
\* issues no queueing-discipline command and leaves the interface as it
\* was; with any of them supplied, 0 included, it goes on to the shaping
\* steps, which begin with 'qdisc show'.
C12_EarlyReturn ==
    Called
    => IF NoneSupplied
       THEN /\ tcRes.status = "early"
            /\ \A c \in Issued : c.op \notin QdiscOps
            /\ qd = tcPre
       ELSE ShowCmd \in Issued

AddOps == { "qdisc add", "class add" }
BadDelayLoss ==
    \/ Lt(tcArgs.delay, 0)
    \/ Lt(tcArgs.jitter, 0)
    \/ tcArgs.loss.t = "num"
       /\ (tcArgs.loss.v < 0 \/ tcArgs.loss.v > 100 * Scale)
BwValid ==
    /\ tcArgs.bw.t = "num"
    /\ 0 <= tcArgs.bw.v /\ tcArgs.bw.v <= bwParamMax

BwOutOfRange ==
    tcArgs.bw.t = "num" /\ (tcArgs.bw.v < 0 \/ tcArgs.bw.v > bwParamMax)
NetemSupplied ==
    \/ ~IsNone(tcArgs.delay) \/ ~IsNone(tcArgs.jitter)
    \/ ~IsNone(tcArgs.loss) \/ ~IsNone(tcArgs.max_queue_size)
\* the netem command carries the values the call was given
CarriesValues(c) ==
    /\ HasArg(c, "delay") = ~IsNone(tcArgs.delay)
    /\ HasArg(c, "delay") => ArgOf(c, "delay") = FmtS(tcArgs.delay)
    /\ HasArg(c, "") = ~IsNone(tcArgs.jitter)
    /\ HasArg(c, "") => ArgOf(c, "") = FmtS(tcArgs.jitter)
    /\ HasArg(c, "loss") = ~IsNone(tcArgs.loss)
    /\ HasArg(c, "loss")
       => LET d == FixedValue(ArgOf(c, "loss")) - tcArgs.loss.v
          IN  -5 <= d /\ d <= 5
    /\ HasArg(c, "limit") = ~IsNone(tcArgs.max_queue_size)
    /\ HasArg(c, "limit") => ArgOf(c, "limit") = FmtS(tcArgs.max_queue_size)

\* C14: an out-of-range bandwidth next to valid delay, jitter, loss or
\* max_queue_size gives no bandwidth-stage command and a netem command with
\* those values; an invalid delay, jitter or loss next to a valid bandwidth
\* still gives the bandwidth-stage commands.
C14_GroupsIndependent ==
    /\ (Called /\ BwOutOfRange /\ ~BadDelayLoss /\ NetemSupplied)
       => /\ BwStageCmds = { }
          /\ \E c \in NetemCmds : CarriesValues(c)
    /\ (Called /\ BadDelayLoss /\ BwValid)
       => BwStageCmds # { }

\* the interface after the first k commands of the call's chain
RECURSIVE After(_)
After(k) ==
    IF k = 0 THEN tcPre ELSE tcExec(tcRes.cmds[k], After(k - 1)).qd

\* C15: a call that reaches the shaping steps executes every command of its
\* chain, in order, whatever the earlier ones printed: tcoutputs has one
\* entry per command, each the output of that command run after the ones
\* before it; each non-empty output is reported; the parent is returned.
C15_AllExecuted ==
    tcRes.status = "returned"
    => /\ tcRes.issued = << EthtoolCmd, ShowCmd >> \o tcRes.cmds
       /\ Len(tcRes.tcoutputs) = Len(tcRes.cmds)
       /\ \A k \in 1..Len(tcRes.cmds) :
             tcRes.tcoutputs[k] = tcExec(tcRes.cmds[k], After(k - 1)).out
       /\ qd = After(Len(tcRes.cmds))
       /\ Cardinality({ k \in 1..Len(tcRes.tcoutputs) : tcRes.tcoutputs[k] # "" })
             <= Len(tcRes.errors)
       /\ tcRes.parent \in { "root", "5:1", "6:", "10:1" }

\* the root deletion fails on a pristine fq_codel interface, and the
\* bandwidth and netem commands after it are executed and take effect
C15_Witness ==
    /\ tcRes.status = "returned"
    /\ Len(tcRes.cmds) = 4
    /\ tcRes.tcoutputs[1] # ""
    /\ \A k \in 2..4 : tcRes.tcoutputs[k] = ""
    /\ qd.root = "htb"
    /\ "10:1" \in qd.handles

(***************************************************************************)
(* Interfaces deleted and renamed one by one                               *)
(***************************************************************************)
\* the kernel still has a pair with interface i's real name as an end
InKernel(i) == \E pr \in kernel : intfs[i].realname \in pr

\* C16: on either platform, a call of delete() on an interface takes the
\* interface's kernel object away, takes the interface out of its node's
\* mappings, sets its link reference to None (0), and returns normally.
C16_IntfDelete ==
    linkOp.op = "intf delete"
    => LET i == linkOp.intf
       IN  /\ linkOp.status = "returned"
           /\ ~InKernel(i)
           /\ i \notin Keys(ports[intfs[i].node])
           /\ intfs[i].name \notin Keys(nameToIntf[intfs[i].node])
           /\ intfs[i].link = 0


\* the interfaces node n still has
Attached(n) == { i \in 1..Len(intfs) : intfs[i].node = n /\ i \in Keys(ports[n]) }

\* the real name interface i was created with (orgName)
OrgName(i) == << "pair", i - 1 >>

Named ==
    \A l \in 1..Len(links) : \A k \in 1..2 :
        LET i == 2 * l - 2 + k
        IN  /\ links[l].names[k] = << links[l].nodes[k], "-eth", intfs[i].port >>
            /\ intfs[i].name = links[l].names[k]
            /\ intfs[i].node = links[l].nodes[k]
            /\ links[l].given[k] # NotGiven => intfs[i].port = links[l].given[k]

\* a single new link takes, where no port was given, what newPort() returned
FromNewPort ==
    Len(links') = Len(links) + 1
    => \A k \in 1..2 :
          links'[Len(links')].given[k] = NotGiven
          => intfs'[2 * Len(links') - 2 + k].port
             = newPort(LinkState, links'[Len(links')].nodes[k])

\* the names the batches of the last link stage hold
Batched == UNION { batchNames(sweep.batches[b]) : b \in 1..Len(sweep.batches) }

\* the batches a name is in
BatchesOf(name) == { b \in 1..Len(sweep.batches) : name \in batchNames(sweep.batches[b]) }

\* no batch is empty or longer than the chunk size
BatchSizes ==
    \A b \in 1..Len(sweep.batches) :
        Len(sweep.batches[b]) >= 1 /\ Len(sweep.batches[b]) <= chunkSize

\* no name is in two batches
OneBatchEach ==
    \A b1 \in 1..Len(sweep.batches) : \A b2 \in (b1 + 1)..Len(sweep.batches) :
        batchNames(sweep.batches[b1]) \cap batchNames(sweep.batches[b2]) = { }

\* C18, as stated: links name their interfaces <node.name>-eth<port>, port
\* being the given port or else newPort()'s; and every such interface the
\* kernel still has when the link stage of cleanup runs is in exactly one of
\* its deletion batches, none of which has more than 1000 names.
C18_ExactlyOneBatch ==
    /\ [](/\ Named
          /\ sweep.ran => /\ BatchSizes
                          /\ sweep.present \subseteq Batched
                          /\ OneBatchEach)
    /\ [][FromNewPort]_vars

\* C18, amended: the same of the names, and every such interface that
\* 'ip link show' lists where cleanup runs (the root namespace) is in at
\* least one deletion batch, none of which has more than 1000 names; the
\* batches hold nothing else, and afterwards the kernel has none of them.
C18_SomeBatch ==
    /\ [](/\ Named
          /\ sweep.ran => /\ BatchSizes
                          /\ sweep.before = Batched
                          /\ UNION kernel \cap sweep.before = { })
    /\ [][FromNewPort]_vars

\* more than a thousand names listed, in two batches, and one name in both
C18_Witness ==
    /\ sweep.ran
    /\ Len(sweep.batches) = 2
    /\ Len(sweep.batches[1]) = chunkSize
    /\ \E name \in sweep.before : BatchesOf(name) = { 1, 2 }
    /\ \E name \in sweep.before : name[1] = "s1" /\ BatchesOf(name) = { 2 }
    /\ sweep.present # sweep.before
    /\ kernel = { }


\* C19: on a patch interface, ifconfig( 'up' ) returns, and ifconfig with any
\* other argument list, the empty one included, raises; neither issues a
\* command.
C19_OnlyUp ==
    ovsOp.status # "none"
    => /\ ovsOp.cmds = << >>
       /\ IF ovsOp.args = << "up" >> THEN ovsOp.status = "returned"
          ELSE ovsOp.status = "raised"

\* 'up' followed by an empty argument is not 'up'
C19_Witness == ovsOp.args = << "up", "" >> /\ ovsOp.status = "raised"


(***************************************************************************)
(* The parents of a chain                                                  *)
(***************************************************************************)
RedCmds == { c \in Issued : c.kind = "red" }

\* command k of the chain attaches at root or at a handle or class that an
\* earlier add of the chain created
Attaches(k) ==
    \/ tcRes.cmds[k].parent = "root"
    \/ \E j \in 1..(k - 1) :
          /\ tcRes.cmds[j].op \in AddOps
          /\ tcRes.cmds[k].parent \in NewHandles(tcRes.cmds[j])

\* C20: in the chain of a config call, every add attaches at root or at a
\* handle or class an earlier command of the chain created (so that, on a
\* pristine interface, none of them prints an error); the netem command
\* attaches at root without a bandwidth stage, at 5:1 after a bandwidth
\* stage without RED, and at 6: after a RED stage; the RED stage attaches at
\* 5:1; and the parent returned is 10:1 exactly when a netem command was
\* issued.
C20_ParentChain ==
    tcRes.status = "returned"
    => /\ \A k \in 1..Len(tcRes.cmds) :
             tcRes.cmds[k].op \in AddOps
             => /\ Attaches(k)
                /\ tcPre = PristineQd => tcRes.tcoutputs[k] = ""
       /\ \A c \in NetemCmds :
             c.parent = IF BwStageCmds = { } THEN "root"
                        ELSE IF RedCmds = { } THEN "5:1" ELSE "6:"
       /\ \A c \in RedCmds : c.parent = "5:1" /\ BwStageCmds # { }
       /\ tcRes.parent = "10:1" <=> NetemCmds # { }

\* a TBF stage, a RED stage on its class and netem on the RED stage
C20_Witness ==
    /\ tcRes.status = "returned"
    /\ Len(tcRes.cmds) = 3
    /\ tcRes.cmds[1].kind = "tbf" /\ tcRes.cmds[1].parent = "root"
    /\ tcRes.cmds[2].kind = "red" /\ tcRes.cmds[2].parent = "5:1"
    /\ tcRes.cmds[3].kind = "netem" /\ tcRes.cmds[3].parent = "6:"
    /\ tcRes.parent = "10:1"
    /\ qd.handles = { "5:", "5:1", "6:", "10:", "10:1" }

(***************************************************************************)
(* The RED stage                                                           *)
(***************************************************************************)
\* the places in the chain of the commands of the given kinds
PlacesOf(kinds) == { k \in 1..Len(tcRes.cmds) : tcRes.cmds[k].kind \in kinds }

\* the chain has a shaping command
Shapes == \E k \in 1..Len(tcRes.cmds) : tcRes.cmds[k].op \in AddOps

\* exactly one RED command, after the bandwidth stage and before netem, with
\* ECN marking exactly when enable_ecn is set
OneRed ==
    /\ Cardinality(PlacesOf({ "red" })) = 1
    /\ \A r \in PlacesOf({ "red" }) :
          /\ tcRes.cmds[r].handle = "6:"
          /\ PlacesOf(BwKinds) # { }
          /\ \A b \in PlacesOf(BwKinds) : b < r
          /\ \A n \in PlacesOf({ "netem" }) : r < n
          /\ HasArg(tcRes.cmds[r], "ecn") = tcArgs.enable_ecn

\* C21: a config call that issues shaping commands with enable_ecn or
\* enable_red set issues exactly one command with handle 6:, after the
\* bandwidth stage and before the netem stage, marking with ECN if
\* enable_ecn is set and dropping otherwise; with neither flag set it issues
\* no command with handle 6:.
C21_OneAqm ==
    (tcRes.status = "returned" /\ Shapes)
    => IF tcArgs.enable_ecn \/ tcArgs.enable_red
       THEN OneRed
       ELSE \A c \in Issued : c.handle # "6:"

(***************************************************************************)
(* killprocs                                                               *)
(***************************************************************************)
\* where cleanup is inside the loop of a killprocs call, and the pattern
LoopStages == { "nodesLoop", "tunnelLoop", "sshLoop" }
PatternOf(stage) ==
    CASE stage = "nodesLoop"  -> "[m]ininet:"
      [] stage = "tunnelLoop" -> "[T]unnel=Ethernet"
      [] OTHER                -> ".ssh/mn"

\* the processes an enumeration in this stage finds
Found(stage) == pidsFunc(procs, PatternOf(stage))

\* the loop is left only by an enumeration that found nothing
ReturnsWhenNone ==
    \A st \in LoopStages : (cpc = st /\ cpc' # st) => Found(st) = { }

\* an enumeration that found something is followed by the signal and the
\* wait, and the loop goes round
ResendsAndWaits ==
    \A st \in LoopStages :
        (cpc = st /\ Found(st) # { } /\ clog' # clog)
        => /\ cpc' = st
           /\ procs' = pkill9(procs, PatternOf(st))
           /\ SubSeq(clog', Len(clog') - 2, Len(clog'))
              = << "pids " \o PatternOf(st), "pkill -9 -f " \o PatternOf(st),
                   "sleep .5" >>

\* C22: killprocs leaves its loop only after an enumeration that found no
\* matching process; after one that found some it sends the signal again and
\* waits; if every signalled process exits in the end, the call returns; and
\* while a matching process stays for ever, it never does.
C22_KillprocsLoop ==
    /\ [][ReturnsWhenNone /\ ResendsAndWaits]_vars
    /\ WF_vars(ProcDies /\ CleanOnly)
       => \A st \in LoopStages : (cpc = st) ~> (cpc # st)
    /\ \A st \in LoopStages :
          []((cpc = st /\ [](Found(st) # { })) => [](cpc = st))

\* the loop has gone round for a node shell that was signalled and is still
\* in the process list
C22_Witness ==
    /\ cpc = "nodesLoop"
    /\ << NodeShell, "killed" >> \in procs
    /\ clog[Len(clog)] = "sleep .5"

(***************************************************************************)
(* The first stage of cleanup                                              *)
(***************************************************************************)
\* the process families the stage is meant for
Families == { "controller", "ofprotocol", "ofdatapath", "ping", "nox_core",
              "lt-nox_core", "ovs-openflowd", "ovs-controller",
              "ovs-testcontroller", "udpbwtest", "mnexec", "ivs",
              "ryu-manager" }

\* the place of an event in the latest run's log, 0 when it is not there
PlaceOf(event) ==
    IF event \in Range(LastRun)
    THEN CHOOSE i \in 1..Len(LastRun) : LastRun[i] = event
    ELSE 0

\* C23: once the first stage has run, each of the thirteen families was a
\* target by itself of the killall and of the later killall -9, and the
\* killall came first.
C23_EachFamily ==
    (cpc \notin { "idle", "zombies" })
    => /\ PlaceOf("killall") >= 1
       /\ PlaceOf("killall") < PlaceOf("killall -9")
       /\ \A f \in Families : f \in zombies

(***************************************************************************)
(* The rate of the bandwidth and RED stages                                *)
(***************************************************************************)
RateKeys == { "rate", "ul rate", "bandwidth" }

\* the rates command c carries, in millionths of a Mbit
RatesOf(c) ==
    { FixedValue(c.args[i][2]) : i \in { j \in 1..Len(c.args) : c.args[j][1] \in RateKeys } }

\* the speedup replaces bw: a node whose name starts with s, speedup > 0
Overridden == tcArgs.speedup > 0 /\ FirstChar(tcArgs.nodeName) = << "s" >>

\* C24: every rate a bandwidth-stage or RED command carries is within
\* 0..bwParamMax, whatever bw, speedup and the node's name are; it is the
\* speedup on a node named s... with speedup > 0 and bw otherwise.
C24_RateInRange ==
    tcRes.status = "returned"
    => \A c \in BwStageCmds \cup RedCmds : \A r \in RatesOf(c) :
          /\ 0 <= r /\ r <= bwParamMax * Scale
          /\ r = Scale * (IF Overridden THEN tcArgs.speedup ELSE tcArgs.bw.v)

(***************************************************************************)
(* Root attachment over a sequence of calls                                *)
(***************************************************************************)
\* the places of the chain whose command attaches a discipline at the root
RootAdds ==
    { k \in 1..Len(tcRes.cmds) :
        tcRes.cmds[k].op = "qdisc add" /\ tcRes.cmds[k].parent = "root" }

\* C25: in any sequence of calls on one interface, no "qdisc add ... root"
\* is issued while the interface holds a root discipline other than the
\* default, and a call's chain has at most one command that attaches at root.
C25_RootAddOnDefault ==
    tcRes.status = "returned"
    => /\ \A k \in RootAdds : After(k - 1).root = "default"
       /\ Cardinality(RootAdds) <= 1

\* a later call attaches at the root of an interface an earlier call shaped
C25_Witness ==
    /\ tcRes.status = "returned"
    /\ tcPre.root # "default"
    /\ RootAdds # { }
    /\ qd.root # "default"

(***************************************************************************)
(* A call whose every parameter is rejected                                *)
(***************************************************************************)
LossOutOfRange ==
    tcArgs.loss.t = "num" /\ (tcArgs.loss.v < 0 \/ tcArgs.loss.v > 100 * Scale)

\* something is supplied, and each supplied parameter fails its validation
AllRejected ==
    /\ ~IsNone(tcArgs.bw) \/ ~IsNone(tcArgs.delay) \/ ~IsNone(tcArgs.jitter)
       \/ ~IsNone(tcArgs.loss)
    /\ IsNone(tcArgs.max_queue_size)
    /\ IsNone(tcArgs.bw) \/ BwOutOfRange
    /\ IsNone(tcArgs.delay) \/ Lt(tcArgs.delay, 0)
    /\ IsNone(tcArgs.jitter) \/ Lt(tcArgs.jitter, 0)
    /\ IsNone(tcArgs.loss) \/ LossOutOfRange

\* C26: a call in which every supplied shaping parameter fails validation
\* issues no command that changes the interface's queueing disciplines: the
\* shaping an earlier call applied is still in place afterwards.
C26_RejectedKeepsState ==
    (Called /\ AllRejected)
    => /\ qd = tcPre
       /\ \A k \in 1..Len(tcRes.cmds) : After(k) = After(k - 1)

=============================================================================
